---- MODULE Spec2Model ----
(***************************************************************************)
(* Model of src/agents/diversity.py: the agent node built by               *)
(* create_llm_diversity_agent(llm, max_retries).  One top-level call of    *)
(* diversity_agent_node(state) reads its input mapping, builds the         *)
(* Instruction (system_message) and the Context (user_msg), runs the       *)
(* retry loop against the oracle llm and returns a new mapping.            *)
(*                                                                         *)
(* Texts returned by the oracle are modelled by the literal they denote:   *)
(* a record saying whether ast.literal_eval can parse the text, whether    *)
(* the value is a list, and the items of that list.  Matrices are          *)
(* sequences of rows, rows are sequences of integers.                      *)
(***************************************************************************)
EXTENDS Integers, Sequences, FiniteSets, TLC

\* ---------------------------------------------------------------- bounds
MaxRetriesBound == 3
MaxPool == 2
MaxVars == 2
MaxHistory == 2

\* ------------------------------------------------------ program constants
DefaultMostRecent == 100
DefaultBudget == 2
MaxRows == 20

VARIABLES
    max_retries,     \* closure variable of the factory (shared by all calls)
    pc,              \* pc[c]: position of call c in diversity_agent_node
    state,           \* state[c]: the input mapping of call c
    system_message,  \* system_message[c]: the Instruction, a sequence of blocks
    user_msg,        \* user_msg[c]: the Context
    tries,           \* tries[c]
    sets,            \* sets[c]: None, or the parsed response
    report_raw,      \* report_raw[c]: last raw oracle text
    result,          \* result[c]: text returned by the oracle call in progress
    output,          \* output[c]: the mapping returned by call c
    llm_log,         \* llm_log[c]: the conversations the oracle received from call c
    verdicts         \* verdicts[c]: the schema check's verdict on each response

vars == <<max_retries, pc, state, system_message, user_msg, tries, sets,
          report_raw, result, output, llm_log, verdicts>>

\* ------------------------------------------------------------ Python None
None == [none |-> TRUE]

Some(v) == [none |-> FALSE, val |-> v]

\* ------------------------------------------------------------ small helpers
Min(a, b) == IF a < b THEN a ELSE b

Max(a, b) == IF a > b THEN a ELSE b

RECURSIVE Flatten(_)
Flatten(ss) == IF ss = <<>> THEN <<>> ELSE Head(ss) \o Flatten(Tail(ss))

\* --------------------------------------------------- literals in a response
\* An entry of a `values` sequence: a number, a string holding a numeral
\* (float("3") succeeds), a string holding no numeral, or a nested sequence.
Num(v) == [kind |-> "num", num |-> v, sub |-> <<>>]

Text(v) == [kind |-> "text", num |-> v, sub |-> <<>>]

Word == [kind |-> "word", num |-> 0, sub |-> <<>>]

Sub(s) == [kind |-> "seq", num |-> 0, sub |-> s]

\* An element of the response list.
Dict(keys, isSeq, vals) ==
    [isDict |-> TRUE, keys |-> keys, valuesIsSeq |-> isSeq, values |-> vals]

NonDict == [isDict |-> FALSE, keys |-> {}, valuesIsSeq |-> FALSE, values |-> <<>>]

\* Texts: the empty string, prose that is no literal, a literal that is no
\* list, and a list literal.  `pad` says the text has surrounding whitespace.
EmptyText == [src |-> "empty", pad |-> FALSE, parses |-> FALSE, isList |-> FALSE, items |-> <<>>]

ProseText(pad) == [src |-> "prose", pad |-> pad, parses |-> FALSE, isList |-> FALSE, items |-> <<>>]

ScalarText(pad) == [src |-> "scalar", pad |-> pad, parses |-> TRUE, isList |-> FALSE, items |-> <<>>]

ListText(items, pad) == [src |-> "list", pad |-> pad, parses |-> TRUE, isList |-> TRUE, items |-> items]

\* ------------------------------------------------------------ input state
\* parent_pool of shape (N, n) and parent_objectives of shape (N, 2).
PoolOf(N, n, off) == [i \in 1..N |-> [j \in 1..n |-> (i - 1) * n + j + off]]

ObjectivesOf(N) == [i \in 1..N |-> <<i, i + 1>>]

HistoryOf(H, n) == [i \in 1..H |-> [j \in 1..n |-> i * j]]

SummaryOf == [param_param_corr |-> <<>>, param_obj_corr |-> <<>>,
              pca_loadings |-> <<>>, pca_explained_variance |-> <<>>]

BareState(N, n) ==
    [parent_pool |-> PoolOf(N, n, 1), parent_objectives |-> ObjectivesOf(N),
     summary |-> SummaryOf]

HistoryState(N, n, H, k) ==
    [parent_pool |-> PoolOf(N, n, 0), parent_objectives |-> ObjectivesOf(N),
     summary |-> SummaryOf, all_para |-> HistoryOf(H, n), most_recent |-> k]

\* {**state, key: value, ...}
Merge(st, extra) ==
    [k \in DOMAIN st \cup DOMAIN extra |-> IF k \in DOMAIN extra THEN extra[k] ELSE st[k]]

\* An input that already carries the keys a former call has written, and a
\* key this component never reads.
CarriedState(N, n) ==
    Merge(BareState(N, n),
          [diverse_pool |-> PoolOf(N, n, 5), rationales |-> <<"kept">>,
           diversity_report_raw |-> ProseText(TRUE), generation |-> 3])

InputStates ==
    {BareState(N, n) : N \in 1..MaxPool, n \in 1..MaxVars}
    \cup {HistoryState(N, n, MaxHistory, k) :
              N \in 1..MaxPool, n \in 1..MaxVars, k \in {1}}
    \cup {HistoryState(1, n, MaxHistory, k) :
              n \in 1..MaxVars, k \in 0..(MaxHistory + 1)}
    \cup {CarriedState(1, n) : n \in 1..MaxVars}

\* state.get(key, default)
Get(st, key, default) == IF key \in DOMAIN st THEN st[key] ELSE default

Shape0(m) == Len(m)

Shape1(m) == IF m = <<>> THEN 0 ELSE Len(m[1])

n_vars(st) == Shape1(st.parent_pool)

n_objs(st) == Shape1(st.parent_objectives)

pool_size(st) == Shape0(st.parent_pool)

most_recent(st) == Get(st, "most_recent", DefaultMostRecent)

\* a[-k:] on a sequence of rows (Python slice semantics: -0 is 0).
LastRows(a, k) ==
    LET H == Len(a)
        start == IF k > 0 THEN Max(H - k, 0)
                 ELSE IF k = 0 THEN 0
                 ELSE Min(-k, H)
    IN  SubSeq(a, start + 1, H)

all_para(st) == LastRows(Get(st, "all_para", st.parent_pool), most_recent(st))

\* np.std(a, axis=0): per column the population variance as the exact
\* fraction (K*sum(x^2) - sum(x)^2) / K^2, whose square root is the score;
\* an empty window gives NaN.
RECURSIVE SumSeq(_)
SumSeq(s) == IF s = <<>> THEN 0 ELSE Head(s) + SumSeq(Tail(s))

Column(a, j) == [i \in 1..Len(a) |-> a[i][j]]

Squares(s) == [i \in 1..Len(s) |-> s[i] * s[i]]

param_diversity(window, n) ==
    LET K == Len(window)
    IN  [j \in 1..n |->
            IF K = 0 THEN [nan |-> TRUE, num |-> 0, den |-> 1]
            ELSE [nan |-> FALSE,
                  num |-> K * SumSeq(Squares(Column(window, j)))
                          - SumSeq(Column(window, j)) * SumSeq(Column(window, j)),
                  den |-> K * K]]

\* arr2str(a, max_rows): the rendering of a matrix, cut to max_rows rows.
Arr2Str(a, max_rows) == [rendered |-> SubSeq(a, 1, Min(Len(a), max_rows))]

\* bounds = (lower, upper), two sequences; absent means the unit interval.
RECURSIVE MinOf(_)
MinOf(s) == IF Len(s) = 1 THEN s[1] ELSE Min(Head(s), MinOf(Tail(s)))

RECURSIVE MaxOf(_)
MaxOf(s) == IF Len(s) = 1 THEN s[1] ELSE Max(Head(s), MaxOf(Tail(s)))

bounds_str(st) ==
    IF Get(st, "bounds", None) # None
    THEN [lo |-> MinOf(st.bounds.lower), hi |-> MaxOf(st.bounds.upper)]
    ELSE [lo |-> 0, hi |-> 1]

budget(st) == Get(st, "budget", DefaultBudget)

\* The Instruction is a sequence of blocks; string concatenation is \o.
InitialInstruction(st) ==
    << [block |-> "instruction", n_vars |-> n_vars(st), n_objs |-> n_objs(st),
        most_recent |-> most_recent(st), bounds_str |-> bounds_str(st),
        budget |-> budget(st), pool_size |-> pool_size(st)] >>

Warning(st) ==
    << [block |-> "warning", pool_size |-> pool_size(st), n_vars |-> n_vars(st)] >>

Context(st) ==
    [n_vars |-> n_vars(st), n_objs |-> n_objs(st),
     pool |-> Arr2Str(st.parent_pool, MaxRows),
     objectives |-> Arr2Str(st.parent_objectives, MaxRows),
     diversity |-> param_diversity(all_para(st), n_vars(st)),
     summary |-> st.summary,
     budget |-> budget(st)]

Conversation(sys, usr) == [system |-> sys, user |-> usr]

\* --------------------------------------------------------- schema check
\* result.strip()
Strip(text) == [text EXCEPT !.pad = FALSE]

\* ast.literal_eval(text): the parsed value, or None when it raises.
\* Leading whitespace makes the parser raise (unexpected indent).
LiteralEval(text) ==
    IF text.parses /\ ~text.pad
    THEN Some([isList |-> text.isList, items |-> text.items])
    ELSE None

ItemValid(item, n) ==
    /\ item.isDict
    /\ "values" \in item.keys
    /\ "rationale" \in item.keys
    /\ item.valuesIsSeq
    /\ Len(item.values) = n

\* Variant without the check of the list's length.
ValidAnyLength(parsed, n, N) ==
    /\ parsed.isList
    /\ \A i \in 1..Len(parsed.items) : ItemValid(parsed.items[i], n)

Valid(parsed, n, N) ==
    /\ parsed.isList
    /\ \A i \in 1..Len(parsed.items) : ItemValid(parsed.items[i], n)
    /\ Len(parsed.items) = N

\* The value of `sets` after the try/except block.
Validated(text, n, N) ==
    LET p == LiteralEval(Strip(text))
    IN  IF p.none THEN None
        ELSE IF Valid(p.val, n, N) THEN p ELSE None

\* --------------------------------------------------------- pool assembly
ArrayError == [err |-> TRUE, ndim |-> 0, mat |-> <<>>]

\* np.array(values, dtype=float): a 1-D array of the numbers (numerals in
\* strings are converted), a 2-D array when every entry is a sequence of
\* one common length, and a raised error otherwise.  A 1-D array is kept as
\* the one-row matrix np.vstack makes of it.
NpArray(values) ==
    LET idx == 1..Len(values)
    IN  IF \E i \in idx : values[i].kind = "word" THEN ArrayError
        ELSE IF \A i \in idx : values[i].kind \in {"num", "text"}
        THEN [err |-> FALSE, ndim |-> 1, mat |-> << [i \in idx |-> values[i].num] >>]
        ELSE IF /\ \A i \in idx : values[i].kind = "seq"
                /\ \A i, j \in idx : Len(values[i].sub) = Len(values[j].sub)
        THEN [err |-> FALSE, ndim |-> 2, mat |-> [i \in idx |-> values[i].sub]]
        ELSE ArrayError

\* np.vstack(arrs): the rows of all arrays in order; raises on an empty
\* list and on arrays whose row lengths differ.
VStack(arrs) ==
    LET idx == 1..Len(arrs)
    IN  IF arrs = <<>> \/ \E i \in idx : arrs[i].err THEN ArrayError
        ELSE IF \E i, j \in idx : Shape1(arrs[i].mat) # Shape1(arrs[j].mat)
        THEN ArrayError
        ELSE [err |-> FALSE, ndim |-> 2,
              mat |-> Flatten([i \in idx |-> arrs[i].mat])]

Assembled(parsed) == VStack([i \in 1..Len(parsed.items) |-> NpArray(parsed.items[i].values)])

NoOutput == [returned |-> FALSE]

\* ------------------------------------------------------------ the oracle
\* The texts the oracle may return to a call whose format asks for N dicts
\* with n values each: prose, a literal that is no list, well-formed lists
\* of up to N + 1 elements (each with or without surrounding whitespace),
\* and lists in which one element, or every element, has the shape `kind`.
\* The numbers of element i are (i-1)*n + 2 .. i*n + 1, so that all rows
\* differ.
ItemKinds == {"nondict", "novalues", "norationale", "scalarvalues", "short",
              "long", "word", "text", "nested", "wide", "ragged"}

RowOf(i, n) == [j \in 1..n |-> (i - 1) * n + j + 1]

ItemOf(kind, i, n) ==
    LET row == RowOf(i, n)
        nums == [j \in 1..n |-> Num(row[j])]
        both == {"values", "rationale"}
    IN  CASE kind = "ok" -> Dict(both, TRUE, nums)
          [] kind = "nondict" -> NonDict
          [] kind = "novalues" -> Dict({"rationale"}, FALSE, <<>>)
          [] kind = "norationale" -> Dict({"values"}, TRUE, nums)
          [] kind = "scalarvalues" -> Dict(both, FALSE, <<>>)
          [] kind = "short" -> Dict(both, TRUE, SubSeq(nums, 1, n - 1))
          [] kind = "long" -> Dict(both, TRUE, Append(nums, Num(0)))
          [] kind = "word" -> Dict(both, TRUE, [nums EXCEPT ![1] = Word])
          [] kind = "text" -> Dict(both, TRUE, [j \in 1..n |-> Text(row[j])])
          [] kind = "nested" ->
                Dict(both, TRUE, [j \in 1..n |-> Sub([h \in 1..n |-> row[j] + h])])
          [] kind = "wide" ->
                Dict(both, TRUE, [j \in 1..n |-> Sub([h \in 1..(n + 1) |-> row[j] + h])])
          [] kind = "ragged" ->
                Dict(both, TRUE, [nums EXCEPT ![1] = Sub(<<row[1]>>)])

ListReply(L, kind, P, n, pad) ==
    ListText([i \in 1..L |-> ItemOf(IF i \in P THEN kind ELSE "ok", i, n)], pad)

Positions(L) == {{p} : p \in 1..L} \cup {1..L}

Replies(n, N) ==
    {ProseText(pad) : pad \in BOOLEAN}
    \cup {ScalarText(pad) : pad \in BOOLEAN}
    \cup {ListReply(L, "ok", {}, n, pad) : L \in 0..(N + 1), pad \in BOOLEAN}
    \cup UNION {{ListReply(L, kind, P, n, FALSE) :
                    kind \in ItemKinds, P \in Positions(L)} : L \in 1..(N + 1)}

\* ------------------------------------------------------------ the program
Calls == {"call"}

\* The agent node has been built; the calls in C have not started.
InitOver(C) ==
    /\ max_retries \in 0..MaxRetriesBound
    /\ pc = [c \in C |-> "idle"]
    /\ state = [c \in C |-> None]
    /\ system_message = [c \in C |-> <<>>]
    /\ user_msg = [c \in C |-> None]
    /\ tries = [c \in C |-> 0]
    /\ sets = [c \in C |-> None]
    /\ report_raw = [c \in C |-> EmptyText]
    /\ result = [c \in C |-> EmptyText]
    /\ output = [c \in C |-> NoOutput]
    /\ llm_log = [c \in C |-> <<>>]
    /\ verdicts = [c \in C |-> <<>>]

Init == InitOver(Calls)

\* lines 15-109: read the input, build Instruction and Context, reset the
\* loop variables.
EnterFrom(c, inputs) ==
    /\ pc[c] = "idle"
    /\ \E st \in inputs :
          /\ state' = [state EXCEPT ![c] = st]
          /\ system_message' = [system_message EXCEPT ![c] = InitialInstruction(st)]
          /\ user_msg' = [user_msg EXCEPT ![c] = Context(st)]
    /\ tries' = [tries EXCEPT ![c] = 0]
    /\ sets' = [sets EXCEPT ![c] = None]
    /\ report_raw' = [report_raw EXCEPT ![c] = EmptyText]
    /\ result' = [result EXCEPT ![c] = EmptyText]
    /\ output' = [output EXCEPT ![c] = NoOutput]
    /\ llm_log' = [llm_log EXCEPT ![c] = <<>>]
    /\ verdicts' = [verdicts EXCEPT ![c] = <<>>]
    /\ pc' = [pc EXCEPT ![c] = "loop"]
    /\ UNCHANGED max_retries

Enter(c) == EnterFrom(c, InputStates)

\* Variants of the loop guard with the comparison off by one.
LoopGuardLE(c) == sets[c] = None /\ tries[c] <= max_retries

LoopGuardOffByOne(c) == sets[c] = None /\ tries[c] + 1 < max_retries

\* line 110: while sets is None and tries < max_retries
LoopGuard(c) == sets[c] = None /\ tries[c] < max_retries

\* lines 110-115: the loop guard holds; call the oracle; report_raw = result.
AskFrom(c, texts) ==
    /\ pc[c] = "loop"
    /\ LoopGuard(c)
    /\ \E text \in texts :
          /\ result' = [result EXCEPT ![c] = text]
          /\ report_raw' = [report_raw EXCEPT ![c] = text]
    /\ llm_log' = [llm_log EXCEPT
                     ![c] = Append(@, Conversation(system_message[c], user_msg[c]))]
    /\ pc' = [pc EXCEPT ![c] = "validate"]
    /\ UNCHANGED <<max_retries, state, system_message, user_msg, tries, sets,
                   output, verdicts>>

\* Variant that issues the next invocation while the previous response is
\* still to be validated.
AskEarly(c) ==
    /\ pc[c] \in {"loop", "validate"}
    /\ LoopGuard(c)
    /\ \E text \in Replies(n_vars(state[c]), pool_size(state[c])) :
          /\ result' = [result EXCEPT ![c] = text]
          /\ report_raw' = [report_raw EXCEPT ![c] = text]
    /\ llm_log' = [llm_log EXCEPT
                     ![c] = Append(@, Conversation(system_message[c], user_msg[c]))]
    /\ pc' = [pc EXCEPT ![c] = "validate"]
    /\ UNCHANGED <<max_retries, state, system_message, user_msg, tries, sets,
                   output, verdicts>>

Ask(c) == AskFrom(c, Replies(n_vars(state[c]), pool_size(state[c])))

\* lines 116-133: parse and check the response.
Validate(c) ==
    /\ pc[c] = "validate"
    /\ sets' = [sets EXCEPT
                  ![c] = Validated(result[c], n_vars(state[c]), pool_size(state[c]))]
    /\ verdicts' = [verdicts EXCEPT ![c] = Append(@, sets'[c] # None)]
    /\ pc' = [pc EXCEPT ![c] = "feedback"]
    /\ UNCHANGED <<max_retries, state, system_message, user_msg, tries,
                   report_raw, result, output, llm_log>>

\* Variant that assigns the warning to a fresh Instruction instead of
\* appending it to the current one.
NextInstructionRebuilt(msg, st, parsed) ==
    IF parsed = None THEN InitialInstruction(st) \o Warning(st) ELSE msg

\* lines 135-140: system_message += warning, after a rejected response.
NextInstruction(msg, st, parsed) ==
    IF parsed = None THEN msg \o Warning(st) ELSE msg

\* Variant in which the Instruction is one string shared by all calls of the
\* agent node (built once by the factory), so a warning reaches every call.
FeedbackShared(c) ==
    /\ pc[c] = "feedback"
    /\ system_message' = [d \in DOMAIN system_message |->
                              NextInstruction(system_message[d], state[c], sets[c])]
    /\ tries' = [tries EXCEPT ![c] = @ + 1]
    /\ pc' = [pc EXCEPT ![c] = "loop"]
    /\ UNCHANGED <<max_retries, state, user_msg, sets, report_raw, result,
                   output, llm_log, verdicts>>

\* lines 135-141: append the warning after a rejected response; tries += 1.
Feedback(c) ==
    /\ pc[c] = "feedback"
    /\ system_message' = [system_message EXCEPT
                            ![c] = NextInstruction(@, state[c], sets[c])]
    /\ tries' = [tries EXCEPT ![c] = @ + 1]
    /\ pc' = [pc EXCEPT ![c] = "loop"]
    /\ UNCHANGED <<max_retries, state, user_msg, sets, report_raw, result,
                   output, llm_log, verdicts>>

\* Variant that returns the pool without its first candidate.
FallbackOutputTail(st, raw) ==
    Merge(st, [diverse_pool |-> Tail(st.parent_pool), rationales |-> <<>>,
               diversity_report_raw |-> raw])

\* lines 143-150: the loop ended without an accepted response.
FallbackOutput(st, raw) ==
    Merge(st, [diverse_pool |-> st.parent_pool, rationales |-> <<>>,
               diversity_report_raw |-> raw])

\* Variant that writes the three keys into the input mapping itself.
FallbackInPlace(c) ==
    /\ pc[c] = "loop"
    /\ ~LoopGuard(c)
    /\ sets[c] = None
    /\ state' = [state EXCEPT ![c] = FallbackOutput(state[c], report_raw[c])]
    /\ output' = [output EXCEPT ![c] = FallbackOutput(state[c], report_raw[c])]
    /\ pc' = [pc EXCEPT ![c] = "fallback"]
    /\ UNCHANGED <<max_retries, system_message, user_msg, tries, sets,
                   report_raw, result, llm_log, verdicts>>

Fallback(c) ==
    /\ pc[c] = "loop"
    /\ ~LoopGuard(c)
    /\ sets[c] = None
    /\ output' = [output EXCEPT ![c] = FallbackOutput(state[c], report_raw[c])]
    /\ pc' = [pc EXCEPT ![c] = "fallback"]
    /\ UNCHANGED <<max_retries, state, system_message, user_msg, tries, sets,
                   report_raw, result, llm_log, verdicts>>

\* lines 152-158: build the pool from the accepted response; np.array and
\* np.vstack may raise, and the error leaves the call.
\* Variant that also returns the rationales and the raw text.
SuccessOutputVerbose(st, pool) ==
    Merge(st, [diverse_pool |-> pool, rationales |-> <<>>,
               diversity_report_raw |-> EmptyText])

SuccessOutput(st, pool) == Merge(st, [diverse_pool |-> pool])

Assemble(c) ==
    /\ pc[c] = "loop"
    /\ ~LoopGuard(c)
    /\ sets[c] # None
    /\ LET pool == Assembled(sets[c].val)
       IN  IF pool.err
           THEN /\ pc' = [pc EXCEPT ![c] = "raised"]
                /\ UNCHANGED output
           ELSE /\ pc' = [pc EXCEPT ![c] = "success"]
                /\ output' = [output EXCEPT ![c] = SuccessOutput(state[c], pool.mat)]
    /\ UNCHANGED <<max_retries, state, system_message, user_msg, tries, sets,
                   report_raw, result, llm_log, verdicts>>

Next ==
    \/ \E c \in DOMAIN pc : Enter(c)
    \/ \E c \in DOMAIN pc : Ask(c)
    \/ \E c \in DOMAIN pc : Validate(c)
    \/ \E c \in DOMAIN pc : Feedback(c)
    \/ \E c \in DOMAIN pc : Fallback(c)
    \/ \E c \in DOMAIN pc : Assemble(c)

Spec == Init /\ [][Next]_vars

\* Two top-level calls of the same agent node whose steps interleave in any
\* order (one after the other included).  The calls share llm and
\* max_retries, the closure variables of line 6; everything else is local
\* to a call.  Inputs and oracle texts are drawn from smaller sets.
TwoCalls == {"call", "other"}

TwoCallInputs == {BareState(N, N) : N \in 1..MaxPool}

TwoCallReplies(n, N) ==
    {ProseText(FALSE), ListReply(N, "ok", {}, n, FALSE),
     ListReply(N, "short", {1}, n, FALSE), ListReply(N, "word", {1}, n, FALSE)}

InitTwo == InitOver(TwoCalls)

NextTwo ==
    \/ \E c \in DOMAIN pc : EnterFrom(c, TwoCallInputs)
    \/ \E c \in DOMAIN pc :
          AskFrom(c, TwoCallReplies(n_vars(state[c]), pool_size(state[c])))
    \/ \E c \in DOMAIN pc : Validate(c)
    \/ \E c \in DOMAIN pc : Feedback(c)
    \/ \E c \in DOMAIN pc : Fallback(c)
    \/ \E c \in DOMAIN pc : Assemble(c)

SpecTwo == InitTwo /\ [][NextTwo]_vars

\* One call over the smaller sets of inputs and texts, with fairness: the
\* interpreter runs every statement of a call and every oracle invocation
\* returns, so a call that can take a step eventually takes one.
SpecFair == Init /\ [][NextTwo]_vars /\ WF_vars(NextTwo)

\* ------------------------------------------------------------ observations
Terminal == {"success", "fallback", "raised"}

\* Number of oracle invocations call c has made.
Invocations(c) == Len(llm_log[c])

AllInvalid(c) == \A i \in 1..Len(verdicts[c]) : ~verdicts[c][i]

PoolHasShape(pool, N, n) == Len(pool) = N /\ \A i \in 1..Len(pool) : Len(pool[i]) = n

RECURSIVE Repeat(_, _)
Repeat(s, k) == IF k <= 0 THEN <<>> ELSE s \o Repeat(s, k - 1)

\* ---------------------------------------------------------------- claims

\* C1 (as stated): in every reachable state of a call the number of oracle
\* invocations made so far equals tries and never exceeds max_retries.
C1_InvocationsEqualTries ==
    \A c \in DOMAIN pc :
        Invocations(c) = tries[c] /\ Invocations(c) <= max_retries

\* C1 (amended): the number of oracle invocations never exceeds max_retries;
\* it equals tries at the loop guard and once the call has ended, and
\* tries + 1 between the oracle's return and the increment that ends the
\* iteration.
C1_InvocationsBounded ==
    \A c \in DOMAIN pc :
        /\ Invocations(c) <= max_retries
        /\ pc[c] \in {"validate", "feedback"} => Invocations(c) = tries[c] + 1
        /\ pc[c] \notin {"validate", "feedback"} => Invocations(c) = tries[c]

C1_Witness ==
    \E c \in DOMAIN pc :
        /\ pc[c] = "feedback"
        /\ max_retries >= 2
        /\ Invocations(c) = max_retries
        /\ tries[c] = max_retries - 1

\* C2: whatever the oracle returns, a call never ends in a raised error; it
\* ends in Success or Fallback and the returned diverse_pool has pool_size
\* rows of n_vars entries.
C2_NeverRaises ==
    \A c \in DOMAIN pc :
        /\ pc[c] # "raised"
        /\ pc[c] \in {"success", "fallback"} =>
              PoolHasShape(output[c].diverse_pool,
                           pool_size(state[c]), n_vars(state[c]))

\* C3: on Success the returned diverse_pool has exactly pool_size candidates
\* of exactly n_vars entries each.
C3_SuccessShape ==
    \A c \in DOMAIN pc :
        pc[c] = "success" =>
            PoolHasShape(output[c].diverse_pool,
                         pool_size(state[c]), n_vars(state[c]))

\* C4: on Fallback the returned diverse_pool is the input parent_pool,
\* rationales is empty and diversity_report_raw is the text returned by the
\* last oracle invocation (the empty string when no invocation was made).
C4_FallbackIdentity ==
    \A c \in DOMAIN pc :
        pc[c] = "fallback" =>
            /\ output[c].diverse_pool = state[c].parent_pool
            /\ output[c].rationales = <<>>
            /\ Invocations(c) >= 1 => output[c].diversity_report_raw = result[c]
            /\ Invocations(c) = 0 => output[c].diversity_report_raw = EmptyText

C4_Witness ==
    \E c \in DOMAIN pc :
        /\ pc[c] = "fallback"
        /\ Invocations(c) >= 2
        /\ pool_size(state[c]) >= 2
        /\ output[c].diversity_report_raw.src = "list"

\* C5: a call ends in Fallback exactly when every one of max_retries oracle
\* responses was classified invalid; an oracle that only returns invalid
\* text is invoked exactly max_retries times.
C5_FallbackIffAllInvalid ==
    \A c \in DOMAIN pc :
        pc[c] \in Terminal =>
            /\ pc[c] = "fallback" <=>
                  (Len(verdicts[c]) = max_retries /\ AllInvalid(c))
            /\ AllInvalid(c) =>
                  (pc[c] = "fallback" /\ Invocations(c) = max_retries)

C5_Witness ==
    \E c \in DOMAIN pc :
        /\ pc[c] = "fallback"
        /\ max_retries >= 2
        /\ Invocations(c) = max_retries
        /\ AllInvalid(c)

NumericCoercible(entry) == entry.kind \in {"num", "text"}

C7_AcceptsOnlyNumeric ==
    \A c \in DOMAIN pc :
        sets[c] # None =>
            LET items == sets[c].val.items
            IN  /\ sets[c].val.isList
                /\ Len(items) = pool_size(state[c])
                /\ \A i \in 1..Len(items) :
                      /\ items[i].isDict
                      /\ {"values", "rationale"} \subseteq items[i].keys
                      /\ items[i].valuesIsSeq
                      /\ Len(items[i].values) = n_vars(state[c])
                      /\ \A j \in 1..Len(items[i].values) :
                            NumericCoercible(items[i].values[j])

\* C8: a response with the wrong list length, an element missing `values`
\* or `rationale`, or a `values` of the wrong length is never accepted: it
\* is followed by another oracle invocation when tries < max_retries, and
\* by Fallback otherwise, on whichever attempt it occurs.
Rejectable(text, n, N) ==
    /\ text.src = "list"
    /\ \/ Len(text.items) # N
       \/ \E i \in 1..Len(text.items) :
             LET item == text.items[i]
             IN  /\ item.isDict
                 /\ \/ "values" \notin item.keys
                    \/ "rationale" \notin item.keys
                    \/ item.valuesIsSeq /\ Len(item.values) # n

LastRejectable(c) ==
    /\ pc[c] \in {"feedback", "loop"} \cup Terminal
    /\ Invocations(c) >= 1
    /\ Rejectable(report_raw[c], n_vars(state[c]), pool_size(state[c]))

C8_RejectedNeverAccepted ==
    /\ [](\A c \in DOMAIN pc :
            LastRejectable(c) => (sets[c] = None /\ pc[c] \notin {"success", "raised"}))
    /\ [][\A c \in DOMAIN pc :
            (LastRejectable(c) /\ pc[c] = "loop" /\ pc'[c] # pc[c]) =>
                IF tries[c] < max_retries
                THEN pc'[c] = "validate" /\ Invocations(c)' = Invocations(c) + 1
                ELSE pc'[c] = "fallback"]_vars

C8_Witness ==
    \E c \in DOMAIN pc :
        /\ pc[c] = "fallback"
        /\ Invocations(c) >= 2
        /\ Rejectable(report_raw[c], n_vars(state[c]), pool_size(state[c]))

\* C9: every attempt of a call sends the same Context, and the Instruction
\* of attempt k is the initial Instruction followed by exactly k - 1
\* warnings: each attempt's Instruction is the previous one with one warning
\* appended.
C9_InstructionOnlyGrows ==
    \A c \in DOMAIN pc :
        \A k \in 1..Len(llm_log[c]) :
            /\ llm_log[c][k].user = llm_log[c][1].user
            /\ llm_log[c][k].system =
                  InitialInstruction(state[c]) \o Repeat(Warning(state[c]), k - 1)
            /\ k > 1 =>
                  llm_log[c][k].system = llm_log[c][k - 1].system \o Warning(state[c])

C9_Witness ==
    \E c \in DOMAIN pc :
        /\ Len(llm_log[c]) >= 3
        /\ Len(llm_log[c][3].system) = 3

\* C10: on Success row i of the returned diverse_pool is the `values` of the
\* i-th element of the accepted response, in response order.
RowIsValues(row, values) ==
    /\ Len(row) = Len(values)
    /\ \A j \in 1..Len(values) :
          NumericCoercible(values[j]) /\ row[j] = values[j].num

C10_RowsAreValues ==
    \A c \in DOMAIN pc :
        pc[c] = "success" =>
            LET items == sets[c].val.items
                pool == output[c].diverse_pool
            IN  /\ Len(pool) = Len(items)
                /\ \A i \in 1..Len(items) : RowIsValues(pool[i], items[i].values)

\* C11: the output is the input with keys merged in: Success writes only
\* diverse_pool, Fallback writes exactly diverse_pool, rationales and
\* diversity_report_raw; every other key keeps the input's value.
WrittenKeys(c) ==
    IF pc[c] = "success" THEN {"diverse_pool"}
    ELSE {"diverse_pool", "rationales", "diversity_report_raw"}

C11_OutputIsMergedInput ==
    \A c \in DOMAIN pc :
        pc[c] \in {"success", "fallback"} =>
            /\ DOMAIN output[c] = DOMAIN state[c] \cup WrittenKeys(c)
            /\ \A k \in DOMAIN state[c] \ WrittenKeys(c) : output[c][k] = state[c][k]

C11_Witness ==
    \E c \in DOMAIN pc :
        /\ pc[c] = "success"
        /\ "rationales" \in DOMAIN state[c]
        /\ output[c].rationales = <<"kept">>
        /\ output[c].generation = 3
        /\ output[c].diverse_pool # state[c].diverse_pool

\* C12: two interleaved calls of one agent node do not interfere: a step of
\* one call changes no local of the other, each call invokes the oracle at
\* most max_retries times, and every Instruction a call sends holds its own
\* initial Instruction and its own warnings only.
Locals(d) ==
    <<state[d], system_message[d], user_msg[d], tries[d], sets[d],
      report_raw[d], result[d], output[d], llm_log[d], verdicts[d]>>

C12_NoInterference ==
    /\ [](\A c \in DOMAIN pc :
            /\ Invocations(c) <= max_retries
            /\ pc[c] \in {"loop"} \cup Terminal => tries[c] = Invocations(c)
            /\ \A k \in 1..Len(llm_log[c]) :
                  /\ llm_log[c][k].user = Context(state[c])
                  /\ llm_log[c][k].system =
                        InitialInstruction(state[c]) \o Repeat(Warning(state[c]), k - 1))
    /\ [][\A d \in DOMAIN pc : pc'[d] = pc[d] => Locals(d)' = Locals(d)]_vars

C12_Witness ==
    \E c, d \in DOMAIN pc :
        /\ c # d
        /\ state[c] # state[d]
        /\ pc[c] = "validate" /\ Len(llm_log[c]) = 3
        /\ pc[d] = "validate" /\ Len(llm_log[d]) = 1

\* Number of warnings the Instruction of call c holds.
Warnings(c) == Len(system_message[c]) - 1

InvalidSoFar(c) == Cardinality({i \in 1..Len(verdicts[c]) : ~verdicts[c][i]})

\* C13 (as stated): a warning is appended only when the rejected response
\* is followed by another oracle invocation, so at exhaustion the
\* Instruction holds exactly max_retries - 1 warnings.
C13_NoWarningOnLastAttempt ==
    \A c \in DOMAIN pc :
        (pc[c] = "fallback" /\ max_retries >= 1) => Warnings(c) = max_retries - 1

\* C13 (amended): a warning is appended after every rejected response, the
\* last one included, and after no accepted one; at exhaustion the
\* Instruction holds exactly max_retries warnings, of which the oracle has
\* seen max_retries - 1.
C13_WarningPerRejection ==
    /\ [](\A c \in DOMAIN pc :
            /\ pc[c] \in {"loop"} \cup Terminal => Warnings(c) = InvalidSoFar(c)
            /\ pc[c] = "fallback" => Warnings(c) = max_retries
            /\ (pc[c] = "fallback" /\ max_retries >= 1) =>
                  Len(llm_log[c][max_retries].system) - 1 = max_retries - 1)
    /\ [][\A c \in DOMAIN pc :
            pc[c] = "feedback" =>
                Warnings(c)' = Warnings(c) + (IF sets[c] = None THEN 1 ELSE 0)]_vars

C13_Witness ==
    \E c \in DOMAIN pc :
        /\ pc[c] = "fallback"
        /\ max_retries >= 2
        /\ Warnings(c) = max_retries

\* C14: the loop stops at the first response the schema check accepts: no
\* invocation follows it, the outcome is Success built from that response,
\* the number of invocations is the index of that response, and the outcome
\* is Success exactly when some response was accepted.
SomeValid(c) == \E i \in 1..Len(verdicts[c]) : verdicts[c][i]

C14_StopsAtFirstValid ==
    \A c \in DOMAIN pc :
        /\ \A i \in 1..Len(verdicts[c]) : verdicts[c][i] => Invocations(c) = i
        /\ pc[c] \in Terminal => (SomeValid(c) <=> pc[c] = "success")
        /\ pc[c] = "success" =>
              /\ verdicts[c][Invocations(c)]
              /\ sets[c] = LiteralEval(Strip(report_raw[c]))
              /\ output[c].diverse_pool = Assembled(sets[c].val).mat

\* C15: the oracle invocations of a call are strictly sequential: at most
\* one response is awaiting validation, a new invocation is issued only
\* after every earlier response has been validated, and the step after an
\* invocation is the validation of its response.
C15_Sequential ==
    /\ [](\A c \in DOMAIN pc :
            /\ Len(verdicts[c]) <= Invocations(c)
            /\ Invocations(c) <= Len(verdicts[c]) + 1
            /\ Invocations(c) = Len(verdicts[c]) + 1 <=> pc[c] = "validate")
    /\ [][\A c \in DOMAIN pc :
            Invocations(c)' # Invocations(c) =>
                /\ Invocations(c)' = Invocations(c) + 1
                /\ Len(verdicts[c]) = Invocations(c)
                /\ pc'[c] = "validate"]_vars
    /\ [][\A c \in DOMAIN pc :
            (pc[c] = "validate" /\ pc'[c] # pc[c]) =>
                /\ Len(verdicts[c])' = Len(verdicts[c]) + 1
                /\ Invocations(c)' = Invocations(c)]_vars

C15_Witness ==
    \E c \in DOMAIN pc :
        /\ pc[c] = "validate"
        /\ Invocations(c) = 3
        /\ Len(verdicts[c]) = 2

\* C16: the History Window behind the diversity scores is exactly the last
\* min(K, H) candidates of the history (all_para, or parent_pool when
\* all_para is absent), K = most_recent; K = 0 gives an empty window.
LastMin(a, K) == SubSeq(a, Len(a) - Min(K, Len(a)) + 1, Len(a))

ClaimedWindow(st) == LastMin(Get(st, "all_para", st.parent_pool), most_recent(st))

C16_WindowIsLastK ==
    \A c \in DOMAIN pc :
        pc[c] # "idle" =>
            /\ all_para(state[c]) = ClaimedWindow(state[c])
            /\ user_msg[c].diversity =
                  param_diversity(ClaimedWindow(state[c]), n_vars(state[c]))

\* C17: provided every oracle invocation returns, every call that has
\* started eventually ends in Success or in Fallback.
C17_EndsInSuccessOrFallback ==
    \A c \in Calls : (pc[c] = "loop") ~> (pc[c] \in {"success", "fallback"})

\* C18: a call never modifies its inputs: from its start to its end, on the
\* Success and on the Fallback path, the input mapping keeps its keys and
\* values (parent_pool, parent_objectives and all_para among them); the
\* result is another mapping.
C18_InputsUnmodified ==
    /\ [](\A c \in DOMAIN pc : pc[c] # "idle" => state[c] \in InputStates)
    /\ [][\A c \in DOMAIN pc : pc[c] # "idle" => state'[c] = state[c]]_vars

C18_Witness ==
    \E c \in DOMAIN pc :
        /\ pc[c] = "fallback"
        /\ Invocations(c) >= 1
        /\ "all_para" \in DOMAIN state[c]
        /\ "diverse_pool" \notin DOMAIN state[c]
        /\ "diverse_pool" \in DOMAIN output[c]

====
